---------------------------- MODULE Spec2Model ----------------------------
(***************************************************************************)
(* MoodySpotify backend: src/app.py (the handlers), src/backend/models.py  *)
(* (the tables) and src/backend/spotify_client.py (the client app.py       *)
(* imports as `from backend import spotify_client`).                       *)
(*                                                                         *)
(* State: the committed rows of the three tables, the wall clock, and one  *)
(* record per request thread. FastAPI runs the `def` handlers of app.py on *)
(* a thread pool, so two requests interleave between their statements.     *)
(*                                                                         *)
(* Library behaviour the handlers rest on:                                 *)
(*  - a SQLAlchemy Session keeps the instances it loaded in memory;        *)
(*    attribute assignments reach the database at commit(), in one         *)
(*    transaction;                                                         *)
(*  - Session.add(x) of an instance that is attached to another live       *)
(*    Session raises InvalidRequestError ("Object ... is already attached  *)
(*    to session ...");                                                    *)
(*  - a commit that violates NOT NULL or UNIQUE raises IntegrityError and  *)
(*    stores nothing;                                                      *)
(*  - resp.raise_for_status() and api_get raise HTTPError on a non-2xx     *)
(*    answer.                                                              *)
(*                                                                         *)
(* src/app.py line 95 reads `ensure_valid_access_token(user)a`; the model  *)
(* takes the line as the call it spells, without the stray character.      *)
(***************************************************************************)
EXTENDS Integers, Sequences, FiniteSets, Bags, TLC

\* ---------------------------------------------------------------- bounds
MaxTicks == 1        \* the clock advances at most this often
MaxExch == 3         \* token exchanges that are answered (each issues fresh tokens)
MaxFetched == 4      \* items the provider hands out over all ranked lists
MaxItems == 2        \* items in one ranked list
MaxList == 101       \* ids in one call of get_audio_features
MaxTokens == 5       \* pieces in an identifier handed to _normalize_track_id

\* ------------------------------------------------------- program constants
None == -1           \* Python None / SQL NULL / an absent JSON key
BadInt == -2         \* a value int() rejects
SafetyMargin == 60   \* app.py:73
DefaultLifetime == 3600  \* app.py:43, app.py:76
ShortLifetime == 61  \* an expires_in the provider supplies
BatchCeiling == 100  \* ids the provider accepts in one /audio-features request

Reqs == {1, 2}                 \* request threads
ExtUsers == {"u1"}             \* external user ids the profile call can name
AskedUsers == ExtUsers \cup {"u0"}  \* ids a request can name; "u0" never authorizes
TrackIds == {"t1", "t2"}       \* external item ids a ranked list can name
\* Seconds the clock advances by: a token issued with ShortLifetime is then
\* exactly SafetyMargin before its expiry, or one second past it.
TickSteps == {ShortLifetime - SafetyMargin, ShortLifetime + 1}

VARIABLES
    now,        \* datetime.utcnow(), seconds
    ticks,      \* how often the clock advanced
    nExch,      \* token exchanges answered so far; the n-th issues token n
    nItems,     \* items the provider has handed out in ranked lists so far
    users,      \* table users: sequence of rows, primary key = index
    tracks,     \* table tracks: sequence of rows, primary key = index
    utts,       \* table user_top_tracks: the bag of its rows (user_id, track_id, rank)
    req,        \* per request thread: its position and locals
    hist,       \* history: per account, the ingestion runs that reached line 131
    calc        \* a call of a helper of spotify_client.py: its argument and result

vars == <<now, ticks, nExch, nItems, users, tracks, utts, req, hist, calc>>

\* ------------------------------------------------------------- requests
NoResp == [ok |-> FALSE, at |-> None, rtKey |-> FALSE, rt |-> None, ein |-> None]
NoMem == [at |-> None, rt |-> None, exp |-> None]

\* A thread's record. kind/pc: the handler and the statement it is at.
\* code: the callback carried a code. row: primary key of the account.
\* mem: the User instance in the request's session. resp: the token
\* endpoint's answer. The rest records what the request did: nAttempts
\* token exchanges attempted, nFetch resource calls made, chkNone/chkSlack
\* the expiry the check of line 73 saw (absent, or seconds left), newExp the
\* expiry computed from the answer, token the value ensure_valid_access_token
\* returned, got401, err the exception that left the handler ("" none),
\* fetched the count answered. ids/ver/bad/idx/pending: the ranked list, the
\* loop index and the links the session holds uncommitted. added: the links
\* the request's commits have stored, in the order it made them. got: the
\* ids of the feature records the provider returned non-null. nSess: the
\* sessions the request has made with next(get_db()).
Idle == [kind |-> "none", pc |-> "idle", code |-> FALSE, row |-> 0, mem |-> NoMem,
         resp |-> NoResp, nAttempts |-> 0, nFetch |-> 0, chkNone |-> FALSE,
         chkSlack |-> 0, newExp |-> None, token |-> None, got401 |-> FALSE,
         err |-> "", fetched |-> None, ids |-> <<>>, ver |-> 0, bad |-> 0,
         idx |-> 0, pending |-> <<>>, added |-> <<>>, got |-> {},
         afFailed |-> FALSE, nSess |-> 0]

\* The handler is over with exception e ("" for a normal return): its session
\* and locals are gone.
Done(q, e) ==
    [q EXCEPT !.pc = "done", !.err = e, !.mem = NoMem, !.ver = 0, !.bad = 0,
              !.idx = 0, !.pending = <<>>, !.added = <<>>]

\* db.query(User).filter(User.spotify_user_id == sid).first(): the row's
\* primary key, 0 when there is none.
FindUser(sid) ==
    IF \E i \in 1..Len(users) : users[i].sid = sid
    THEN CHOOSE i \in 1..Len(users) : users[i].sid = sid
    ELSE 0

\* The instance a query loads into the request's session.
Load(i) == [at |-> users[i].at, rt |-> users[i].rt, exp |-> users[i].exp]

\* ------------------------------------------------------ token responses
\* What the token endpoint can answer to exchange number n: the JSON body of a
\* 2xx answer. It carries the access token n, with or without a lifetime, and
\* a new refresh token, none, or a null one; or it lacks the access token; or
\* its lifetime is not a number.
TokenResponses(n) ==
    { [ok |-> TRUE, at |-> n, rtKey |-> k, rt |-> IF k THEN n ELSE None, ein |-> e] :
        k \in BOOLEAN, e \in {None, ShortLifetime} }
    \cup { [ok |-> TRUE, at |-> n, rtKey |-> TRUE, rt |-> None, ein |-> None],
           [ok |-> TRUE, at |-> None, rtKey |-> FALSE, rt |-> None, ein |-> None],
           [ok |-> TRUE, at |-> n, rtKey |-> FALSE, rt |-> None, ein |-> BadInt] }

\* The answer that carries every field, with the default lifetime.
FullResponse(n) ==
    [ok |-> TRUE, at |-> n, rtKey |-> TRUE, rt |-> n, ein |-> DefaultLifetime]

\* The answer as the request keeps it once the lifetime is consumed.
Kept(resp) == [resp EXCEPT !.ein = None]

\* expires_in = token_json.get("expires_in", 3600)
ExpiresIn(resp) == IF resp.ein = None THEN DefaultLifetime ELSE resp.ein

\* datetime.utcnow() + timedelta(seconds=int(expires_in))
ExpiresAt(t, resp) == t + ExpiresIn(resp)

\* ---------------------------------------------------------------- clock
Tick ==
    /\ ticks < MaxTicks
    /\ \E d \in TickSteps : now' = now + d
    /\ ticks' = ticks + 1
    /\ UNCHANGED <<calc, hist, nExch, nItems, users, tracks, utts, req>>

\* ------------------------------------------------- GET /auth/callback
\* Variant: the stored refresh token is overwritten whatever the answer holds.
CallbackRefreshTokenOverwrite(new, old) == new

\* refresh_token or user.refresh_token
CallbackRefreshToken(new, old) == IF new # None THEN new ELSE old

\* Variant: the token columns accept NULL.
UsersCommitNullable(rows) ==
    IF \A i, j \in 1..Len(rows) : rows[i].sid = rows[j].sid => i = j
    THEN rows
    ELSE users

\* What commit() leaves in table users when the session holds `rows`:
\* access_token and refresh_token are NOT NULL and spotify_user_id is UNIQUE;
\* a violation raises IntegrityError and the table stays as it was.
UsersCommit(rows) ==
    IF /\ \A i \in 1..Len(rows) : rows[i].at # None /\ rows[i].rt # None
       /\ \A i, j \in 1..Len(rows) : rows[i].sid = rows[j].sid => i = j
    THEN rows
    ELSE users

\* Variant: the callback adds a new User whether or not one is stored.
CallbackUpsertInsert(sid, resp, t) ==
    Append(users, [sid |-> sid, at |-> resp.at, rt |-> resp.rt,
                   exp |-> ExpiresAt(t, resp)])

\* Lines 52-66: the rows the session holds before db.commit().
CallbackUpsert(sid, resp, t) ==
    LET i == FindUser(sid) IN
    IF i # 0
    THEN [users EXCEPT ![i] = [sid |-> sid, at |-> resp.at,
                               rt |-> CallbackRefreshToken(resp.rt, users[i].rt),
                               exp |-> ExpiresAt(t, resp)]]
    ELSE Append(users, [sid |-> sid, at |-> resp.at, rt |-> resp.rt,
                        exp |-> ExpiresAt(t, resp)])

\* Variant: no check of code; the exchange is attempted with code = None and
\* the token endpoint rejects it.
CallbackCodeUnchecked(r) ==
    /\ req' = [req EXCEPT ![r] = [Idle EXCEPT !.kind = "cb", !.pc = "done",
                                              !.nAttempts = 1, !.err = "HTTPError"]]
    /\ UNCHANGED <<calc, hist, now, ticks, nExch, nItems, users, tracks, utts>>

\* Lines 38-39: code is None -> HTTPException(400) before anything else.
CallbackMissingCode(r) ==
    /\ req' = [req EXCEPT ![r] = [Idle EXCEPT !.kind = "cb", !.pc = "done",
                                              !.err = "400"]]
    /\ UNCHANGED <<calc, hist, now, ticks, nExch, nItems, users, tracks, utts>>

\* Line 40: exchange_code_for_token raises (resp.raise_for_status()).
CallbackExchangeFails(r) ==
    /\ req' = [req EXCEPT ![r] = [Idle EXCEPT !.kind = "cb", !.pc = "done",
                                              !.code = TRUE, !.nAttempts = 1,
                                              !.err = "HTTPError"]]
    /\ UNCHANGED <<calc, hist, now, ticks, nExch, nItems, users, tracks, utts>>

\* Lines 40-68 when the exchange answers. With `full` the provider answers
\* with every field.
CallbackExchanged(r, full) ==
    /\ nExch < MaxExch
    /\ nExch' = nExch + 1
    /\ \E resp \in IF full THEN {FullResponse(nExch + 1)} ELSE TokenResponses(nExch + 1),
          profile \in ExtUsers \cup {"HTTPError"} :
         LET base == [Idle EXCEPT !.kind = "cb", !.pc = "done", !.code = TRUE,
                                  !.nAttempts = 1, !.resp = Kept(resp)]
         IN
         IF resp.at = None
         THEN \* token_json["access_token"]
              /\ req' = [req EXCEPT ![r] = [base EXCEPT !.err = "KeyError"]]
              /\ users' = users
         ELSE IF resp.ein = BadInt
         THEN \* int(expires_in)
              /\ req' = [req EXCEPT ![r] = [base EXCEPT !.err = "ValueError"]]
              /\ users' = users
         ELSE IF profile = "HTTPError"
         THEN \* get_user_profile raises
              /\ req' = [req EXCEPT ![r] = [base EXCEPT !.nFetch = 1,
                                                        !.err = "HTTPError"]]
              /\ users' = users
         ELSE LET i == FindUser(profile)
                  held == CallbackUpsert(profile, resp, now)
                  stored == UsersCommit(held)
              IN
              /\ users' = stored
              /\ req' = [req EXCEPT ![r] =
                    [base EXCEPT !.nFetch = 1, !.nSess = 1,
                                 !.row = IF i # 0 THEN i
                                         ELSE IF stored = held THEN Len(stored) ELSE 0,
                                 !.newExp = ExpiresAt(now, resp),
                                 !.err = IF stored = held THEN ""
                                         ELSE "IntegrityError"]]
    /\ UNCHANGED <<calc, hist, now, ticks, nItems, tracks, utts>>

\* The request carries a code or none.
AuthCallback(r, full) ==
    /\ req[r].pc = "idle"
    /\ \/ CallbackMissingCode(r)
       \/ CallbackExchangeFails(r)
       \/ CallbackExchanged(r, full)

\* ------------------------------------------ ensure_valid_access_token
\* Variant: the comparison is strict.
TokenInvalidStrict(exp, t) == exp = None \/ exp < t + SafetyMargin

\* token_expires is None or token_expires <= utcnow() + 60 s
TokenInvalid(exp, t) == exp = None \/ exp <= t + SafetyMargin

\* Line 73. A valid token is returned as loaded (line 85); an invalid one
\* goes on to the refresh exchange.
EnsureCheck(r) ==
    /\ req[r].pc = "ev_check"
    /\ LET q == req[r]
           seen == [q EXCEPT !.chkNone = (q.mem.exp = None),
                             !.chkSlack = IF q.mem.exp = None THEN 0
                                          ELSE q.mem.exp - now]
       IN
       req' = [req EXCEPT ![r] =
          IF TokenInvalid(q.mem.exp, now)
          THEN [seen EXCEPT !.pc = "ev_exchange"]
          ELSE [seen EXCEPT !.pc = IF q.kind = "me" THEN "me_profile" ELSE "top_fetch",
                            !.token = q.mem.at]]
    /\ UNCHANGED <<calc, hist, now, ticks, nExch, nItems, users, tracks, utts>>

\* Variant: a failed exchange is tried once more.
ExchangeFailsRetry(r) ==
    /\ req' = [req EXCEPT ![r] =
          IF req[r].nAttempts = 0
          THEN [@ EXCEPT !.nAttempts = 1]
          ELSE Done([req[r] EXCEPT !.nAttempts = @ + 1], "HTTPError")]
    /\ UNCHANGED <<calc, hist, now, ticks, nExch, nItems, users, tracks, utts>>

\* Line 74, refresh_access_token raising: the error leaves the handler.
ExchangeFails(r) ==
    /\ req' = [req EXCEPT ![r] = Done([@ EXCEPT !.nAttempts = @ + 1], "HTTPError")]
    /\ UNCHANGED <<calc, hist, now, ticks, nExch, nItems, users, tracks, utts>>

\* Line 74, refresh_access_token answering.
ExchangeAnswers(r) ==
    /\ nExch < MaxExch
    /\ nExch' = nExch + 1
    /\ \E resp \in TokenResponses(nExch + 1) :
         req' = [req EXCEPT ![r] = [@ EXCEPT !.pc = "ev_assign", !.nAttempts = @ + 1,
                                             !.resp = resp]]
    /\ UNCHANGED <<calc, hist, now, ticks, nItems, users, tracks, utts>>

EnsureExchange(r) ==
    /\ req[r].pc = "ev_exchange"
    /\ \/ ExchangeFails(r)
       \/ ExchangeAnswers(r)

\* Lines 75-81 on the in-memory instance: the access token is assigned before
\* int(expires_in) can raise.
RefreshAssign(mem, resp, t) ==
    IF resp.ein = BadInt
    THEN [mem EXCEPT !.at = resp.at]
    ELSE [at |-> resp.at,
          rt |-> IF resp.rtKey THEN resp.rt ELSE mem.rt,
          exp |-> ExpiresAt(t, resp)]

EnsureAssign(r) ==
    /\ req[r].pc = "ev_assign"
    /\ LET q == req[r] IN
       req' = [req EXCEPT ![r] =
          IF q.resp.ein = BadInt
          THEN Done(q, "ValueError")
          ELSE [q EXCEPT !.pc = "ev_persist", !.newExp = ExpiresAt(now, q.resp),
                         !.resp = Kept(q.resp),
                         !.mem = RefreshAssign(q.mem, q.resp, now)]]
    /\ UNCHANGED <<calc, hist, now, ticks, nExch, nItems, users, tracks, utts>>

\* Variant: the access token is written on its own.
RefreshPersistTokenOnly(rows, i, mem) == [rows EXCEPT ![i].at = mem.at]

\* Variant: access token and expiry are written, the refresh token column is
\* left as stored.
RefreshPersistColumns(rows, i, mem) ==
    [rows EXCEPT ![i].at = mem.at, ![i].exp = mem.exp]

\* Lines 82-84: db = next(get_db()) is a second session; db_user is attached
\* to the session of the handler that loaded it, so db.add(db_user) raises
\* InvalidRequestError and db.commit() is not reached. The handler's own
\* session is never committed on this path: the rows stay as they were.
RefreshPersist(rows, i, mem) == rows

EnsurePersist(r) ==
    /\ req[r].pc = "ev_persist"
    /\ users' = RefreshPersist(users, req[r].row, req[r].mem)
    /\ req' = [req EXCEPT ![r] =
          Done([@ EXCEPT !.nSess = @ + 1], "InvalidRequestError")]
    /\ UNCHANGED <<calc, hist, now, ticks, nExch, nItems, tracks, utts>>

\* --------------------------------------------------------- GET /api/me
\* Lines 90-93.
ApiMeBegin(r) ==
    /\ req[r].pc = "idle"
    /\ \E sid \in AskedUsers :
         LET i == FindUser(sid) IN
         req' = [req EXCEPT ![r] =
            IF i = 0
            THEN [Idle EXCEPT !.kind = "me", !.pc = "done", !.err = "404",
                              !.nSess = 1]
            ELSE [Idle EXCEPT !.kind = "me", !.pc = "ev_check", !.row = i,
                              !.mem = Load(i), !.nSess = 1]]
    /\ UNCHANGED <<calc, hist, now, ticks, nExch, nItems, users, tracks, utts>>

\* Line 96: get_user_profile(access_token); api_get raises HTTPError on any
\* non-2xx answer, 401 included.
ApiMeProfile(r) ==
    /\ req[r].pc = "me_profile"
    /\ \E answer \in {"ok", "401", "500"} :
         req' = [req EXCEPT ![r] =
            Done([@ EXCEPT !.nFetch = @ + 1, !.got401 = (answer = "401")],
                 IF answer = "ok" THEN "" ELSE "HTTPError")]
    /\ UNCHANGED <<calc, hist, now, ticks, nExch, nItems, users, tracks, utts>>

\* ------------------------------------------------- GET /api/top-tracks
\* db.query(Track).filter(Track.spotify_track_id == tid).first(): the row's
\* primary key, 0 when there is none.
FindTrack(tid) ==
    IF \E i \in 1..Len(tracks) : tracks[i].tid = tid
    THEN CHOOSE i \in 1..Len(tracks) : tracks[i].tid = tid
    ELSE 0

\* Sequences over S of length at most n.
SeqsUpTo(S, n) == UNION { [1..k -> S] : k \in 0..n }

\* Variant: the lookup's result is not checked; with no account, the read of
\* db_user.token_expires raises AttributeError.
TopBeginUnchecked(r) ==
    /\ req[r].pc = "idle"
    /\ \E sid \in AskedUsers :
         LET i == FindUser(sid) IN
         req' = [req EXCEPT ![r] =
            IF i = 0
            THEN [Idle EXCEPT !.kind = "top", !.pc = "done", !.err = "AttributeError",
                              !.nSess = 1]
            ELSE [Idle EXCEPT !.kind = "top", !.pc = "ev_check", !.row = i,
                              !.mem = Load(i), !.nSess = 1]]
    /\ UNCHANGED <<calc, hist, now, ticks, nExch, nItems, users, tracks, utts>>

\* Lines 102-105.
TopBegin(r) ==
    /\ req[r].pc = "idle"
    /\ \E sid \in AskedUsers :
         LET i == FindUser(sid) IN
         req' = [req EXCEPT ![r] =
            IF i = 0
            THEN [Idle EXCEPT !.kind = "top", !.pc = "done", !.err = "404",
                              !.nSess = 1]
            ELSE [Idle EXCEPT !.kind = "top", !.pc = "ev_check", !.row = i,
                              !.mem = Load(i), !.nSess = 1]]
    /\ UNCHANGED <<calc, hist, now, ticks, nExch, nItems, users, tracks, utts>>

\* Lines 107-108: get_user_top_tracks raises HTTPError, or answers a ranked
\* list. ids are the items' ids in rank order, ver stands for the metadata
\* (name, artists, album) and feature values the provider reports at the
\* time, and bad is the position of an item that lacks a metadata key (0:
\* none; the last position otherwise). bads and vers are what the provider
\* can answer.
TopFetch(r, bads, vers) ==
    /\ req[r].pc = "top_fetch"
    /\ \/ /\ \E answer \in {"401", "500"} :
               req' = [req EXCEPT ![r] =
                  Done([@ EXCEPT !.nFetch = @ + 1, !.got401 = (answer = "401")],
                       "HTTPError")]
          /\ nItems' = nItems
       \/ \E ids \in SeqsUpTo(TrackIds, MaxItems), bad \in bads, ver \in vers :
            /\ nItems + Len(ids) <= MaxFetched
            /\ nItems' = nItems + Len(ids)
            /\ req' = [req EXCEPT ![r] =
                  [@ EXCEPT !.pc = "top_loop", !.nFetch = @ + 1, !.ids = ids,
                            !.ver = ver, !.bad = IF bad THEN Len(ids) ELSE 0]]
    /\ UNCHANGED <<calc, hist, now, ticks, nExch, users, tracks, utts>>

\* The rows a commit inserts for the links the session holds.
Rows(pending) ==
    LET S == { pending[i] : i \in 1..Len(pending) } IN
    [x \in S |-> Cardinality({ i \in 1..Len(pending) : pending[i] = x })]

\* History of an account's runs: the ranked list of its first run that reached
\* line 131 with a list that is not empty, how many runs reached it, and
\* whether every run so far had that same list and none raised inside the
\* loop.
NoRuns == [ids |-> <<>>, n |-> 0, same |-> TRUE]
Mixed == [ids |-> <<>>, n |-> 0, same |-> FALSE]
RunDone(h, ids) ==
    IF h.same /\ h.ids = ids
    THEN IF ids = <<>> THEN h ELSE [h EXCEPT !.n = @ + 1]
    ELSE IF h.same /\ h.n = 0
    THEN [ids |-> ids, n |-> 1, same |-> TRUE]
    ELSE Mixed

\* Variant: a link the table already holds for this user and track is not
\* added again.
AddLinkOnce(pending, uid, tid, rank) ==
    IF \E x \in BagToSet(utts) : x.user_id = uid /\ x.track_id = tid
    THEN pending
    ELSE Append(pending, [user_id |-> uid, track_id |-> tid, rank |-> rank])

\* Variant: the rank is the loop index, counted from 0.
AddLinkZeroBased(pending, uid, tid, rank) ==
    Append(pending, [user_id |-> uid, track_id |-> tid, rank |-> rank - 1])

\* Variant: every link gets rank 1.
AddLinkFirstRank(pending, uid, tid, rank) ==
    Append(pending, [user_id |-> uid, track_id |-> tid, rank |-> 1])

\* Lines 129-130: the link of this item, added to the session.
AddLink(pending, uid, tid, rank) ==
    Append(pending, [user_id |-> uid, track_id |-> tid, rank |-> rank])

\* Variant: the metadata of an item whose Track exists is brought up to date.
TopLoopRefresh(r) ==
    /\ req[r].pc = "top_loop"
    /\ req[r].idx < Len(req[r].ids)
    /\ LET q == req[r]
           i == q.idx + 1
           t == FindTrack(q.ids[i])
       IN
       /\ req' = [req EXCEPT ![r] =
             IF q.bad = i
             THEN Done(q, "KeyError")
             ELSE IF t = 0
             THEN [q EXCEPT !.pc = "top_insert"]
             ELSE [q EXCEPT !.idx = i, !.pending = AddLink(q.pending, q.row, t, i)]]
       /\ hist' = IF q.bad = i
                  THEN [hist EXCEPT ![users[q.row].sid] = Mixed]
                  ELSE hist
       /\ tracks' = IF q.bad # i /\ t # 0
                    THEN [tracks EXCEPT ![t].meta = q.ver]
                    ELSE tracks
    /\ UNCHANGED <<calc, now, ticks, nExch, nItems, users, utts>>

\* Lines 111-117 and 128-130 for the item at position idx + 1: item["name"]
\* raises KeyError for an item without the key; an item whose Track exists
\* gets its link; a new one goes on to the insert.
TopLoop(r) ==
    /\ req[r].pc = "top_loop"
    /\ req[r].idx < Len(req[r].ids)
    /\ LET q == req[r]
           i == q.idx + 1
           t == FindTrack(q.ids[i])
       IN
       /\ req' = [req EXCEPT ![r] =
             IF q.bad = i
             THEN Done(q, "KeyError")
             ELSE IF t = 0
             THEN [q EXCEPT !.pc = "top_insert"]
             ELSE [q EXCEPT !.idx = i, !.pending = AddLink(q.pending, q.row, t, i)]]
       /\ hist' = IF q.bad = i
                  THEN [hist EXCEPT ![users[q.row].sid] = Mixed]
                  ELSE hist
    /\ UNCHANGED <<calc, now, ticks, nExch, nItems, users, tracks, utts>>

\* Lines 118-130 for a new item: db.add(db_track); db.commit() stores the
\* Track and the links the session holds so far, in one transaction. The
\* commit raises IntegrityError, storing nothing, when another request has
\* stored the same spotify_track_id (UNIQUE) since this one looked.
TopInsert(r) ==
    /\ req[r].pc = "top_insert"
    /\ LET q == req[r]
           i == q.idx + 1
       IN
       IF FindTrack(q.ids[i]) # 0
       THEN /\ req' = [req EXCEPT ![r] = Done(q, "IntegrityError")]
            /\ hist' = [hist EXCEPT ![users[q.row].sid] = Mixed]
            /\ UNCHANGED <<tracks, utts>>
       ELSE /\ tracks' = Append(tracks, [tid |-> q.ids[i], meta |-> q.ver,
                                         af |-> None])
            /\ utts' = utts (+) Rows(q.pending)
            /\ req' = [req EXCEPT ![r] =
                  [q EXCEPT !.pc = "top_loop", !.idx = i,
                            !.added = q.added \o q.pending,
                            !.pending = AddLink(<<>>, q.row, Len(tracks) + 1, i)]]
            /\ hist' = hist
    /\ UNCHANGED <<calc, now, ticks, nExch, nItems, users>>

\* Line 131, and lines 134-135, 150 for an empty list.
TopCommit(r) ==
    /\ req[r].pc = "top_loop"
    /\ req[r].idx = Len(req[r].ids)
    /\ utts' = utts (+) Rows(req[r].pending)
    /\ req' = [req EXCEPT ![r] =
          IF Len(req[r].ids) = 0
          THEN Done([@ EXCEPT !.fetched = 0], "")
          ELSE [@ EXCEPT !.pc = "top_features", !.pending = <<>>,
                         !.added = req[r].added \o req[r].pending]]
    /\ hist' = [hist EXCEPT ![users[req[r].row].sid] = RunDone(@, req[r].ids)]
    /\ UNCHANGED <<calc, now, ticks, nExch, nItems, users, tracks>>

\* Variant: a feature blob is written only where none is stored yet.
StoreFeaturesOnce(rows, got, blob) ==
    [i \in 1..Len(rows) |-> IF rows[i].tid \in got /\ rows[i].af = None
                            THEN [rows[i] EXCEPT !.af = blob]
                            ELSE rows[i]]

\* Lines 140-148 for the records the provider returned non-null: each
\* overwrites the feature blob of the Track with its id.
StoreFeatures(rows, got, blob) ==
    [i \in 1..Len(rows) |-> IF rows[i].tid \in got
                            THEN [rows[i] EXCEPT !.af = blob]
                            ELSE rows[i]]

\* Lines 137-140 when api_get raises inside get_audio_features: the except
\* clause returns {"audio_features": None}, .get("audio_features", [])
\* yields None (the key is present), and `for af in af_list` raises
\* TypeError.
TopFeaturesUnavailable(r) ==
    /\ req' = [req EXCEPT ![r] =
          Done([@ EXCEPT !.nFetch = @ + 1, !.afFailed = TRUE], "TypeError")]
    /\ UNCHANGED <<calc, hist, now, ticks, nExch, nItems, users, tracks, utts>>

\* Lines 137-150 when the provider answers: got are the ids of the records
\* that are not null. The provider decides what it returns: a record can be
\* missing for an id of the list, and one can come for an id outside it.
TopFeaturesStored(r) ==
    /\ \E got \in SUBSET TrackIds :
         /\ tracks' = StoreFeatures(tracks, got, req[r].ver)
         /\ req' = [req EXCEPT ![r] =
               Done([@ EXCEPT !.nFetch = @ + 1, !.fetched = Len(req[r].ids),
                              !.got = got], "")]
    /\ UNCHANGED <<calc, hist, now, ticks, nExch, nItems, users, utts>>

TopFeatures(r) ==
    /\ req[r].pc = "top_features"
    /\ \/ TopFeaturesUnavailable(r)
       \/ TopFeaturesStored(r)

\* The handler has answered; the thread takes the next request.
Release(r) ==
    /\ req[r].pc = "done"
    /\ req' = [req EXCEPT ![r] = Idle]
    /\ UNCHANGED <<calc, hist, now, ticks, nExch, nItems, users, tracks, utts>>

\* ------------------------------------------- helpers of spotify_client.py
NoCall == [op |-> "none", arg |-> <<>>, out |-> <<>>]

\* The /audio-features requests one call of get_audio_features issues, each
\* the list of ids it carries: lines 149-150 join every id into the `ids`
\* parameter of a single api_get.
AudioFeatureRequests(track_ids) == <<track_ids>>

\* Lines 134-137: api_top_tracks calls get_audio_features with the ids of a
\* ranked list that is not empty; the list is as long as the provider made
\* it. The n items are told apart by their position.
GetAudioFeatures ==
    /\ calc = NoCall
    /\ \E n \in 1..MaxList :
         LET track_ids == [i \in 1..n |-> i] IN
         calc' = [op |-> "get_audio_features", arg |-> track_ids,
                  out |-> AudioFeatureRequests(track_ids)]
    /\ UNCHANGED <<now, ticks, nExch, nItems, users, tracks, utts, req, hist>>

\* A string is the sequence of its pieces: the characters " ", ":", "/", "?"
\* and words that hold none of them. No word is a prefix of another, and
\* "open.spotify.com" cannot be put together from other pieces, so two
\* strings are equal exactly when their sequences are, a string starts with
\* "spotify:" exactly when its first two pieces are "spotify" and ":", and it
\* contains "open.spotify.com" exactly when that piece occurs in it.
Tokens == {" ", ":", "/", "?", "spotify", "open.spotify.com", "abc123"}

\* The identifiers of the docstring (line 129) and of the specification.
Examples ==
    { <<"spotify", ":", "track", ":", "abc123">>,
      <<"https", ":", "/", "/", "open.spotify.com", "/", "track", "/", "abc123",
        "?", "si=xyz">>,
      <<"abc123">> }

Identifiers == SeqsUpTo(Tokens, MaxTokens) \cup Examples

Positions(t, c) == { i \in 1..Len(t) : t[i] = c }
Least(S) == CHOOSE i \in S : \A j \in S : i <= j
Greatest(S) == CHOOSE i \in S : \A j \in S : j <= i

\* t.strip()
Strip(t) ==
    LET inked == { i \in 1..Len(t) : t[i] # " " } IN
    IF inked = {} THEN <<>> ELSE SubSeq(t, Least(inked), Greatest(inked))

\* t.split(sep)[-1]
SplitLast(t, sep) ==
    IF Positions(t, sep) = {} THEN t
    ELSE SubSeq(t, Greatest(Positions(t, sep)) + 1, Len(t))

\* t.split(sep)[0]
SplitFirst(t, sep) ==
    IF Positions(t, sep) = {} THEN t
    ELSE SubSeq(t, 1, Least(Positions(t, sep)) - 1)

\* t.startswith("spotify:")
StartsWithScheme(t) == Len(t) >= 2 /\ t[1] = "spotify" /\ t[2] = ":"

\* "open.spotify.com" in t
HasLinkHost(t) == Positions(t, "open.spotify.com") # {}

\* The result of _normalize_track_id: None, or a string.
NoId == [none |-> TRUE, id |-> <<>>]
Id(t) == [none |-> FALSE, id |-> t]

\* Lines 132-140.
NormalizeTrackId(t) ==
    IF t = <<>> THEN NoId
    ELSE LET u == Strip(t) IN
         IF StartsWithScheme(u) THEN Id(SplitLast(u, ":"))
         ELSE IF HasLinkHost(u) THEN Id(SplitFirst(SplitLast(u, "/"), "?"))
         ELSE Id(u)

\* A call of _normalize_track_id on an identifier.
NormalizeCall ==
    /\ calc = NoCall
    /\ \E t \in Identifiers :
         calc' = [op |-> "_normalize_track_id", arg |-> t, out |-> NormalizeTrackId(t)]
    /\ UNCHANGED <<now, ticks, nExch, nItems, users, tracks, utts, req, hist>>

\* ----------------------------------------------------------------- spec
\* Base.metadata.create_all on an empty database; no request yet.
Init ==
    /\ now = 0
    /\ ticks = 0
    /\ nExch = 0
    /\ nItems = 0
    /\ users = <<>>
    /\ tracks = <<>>
    /\ utts = EmptyBag
    /\ req = [r \in Reqs |-> Idle]
    /\ hist = [u \in ExtUsers |-> NoRuns]
    /\ calc = NoCall

\* The token lifecycle: callbacks and /api/me requests while the clock runs.
Next ==
    \/ Tick
    \/ \E r \in Reqs : AuthCallback(r, FALSE)
    \/ \E r \in Reqs : ApiMeBegin(r)
    \/ \E r \in Reqs : EnsureCheck(r)
    \/ \E r \in Reqs : EnsureExchange(r)
    \/ \E r \in Reqs : EnsureAssign(r)
    \/ \E r \in Reqs : EnsurePersist(r)
    \/ \E r \in Reqs : ApiMeProfile(r)
    \/ \E r \in Reqs : Release(r)

Spec == Init /\ [][Next]_vars

\* The ingestion pipeline: a first authorization that the provider answers in
\* full, then /api/top-tracks requests while the token is fresh (the clock
\* does not advance, so ensure_valid_access_token returns the stored token).
\* The provider's items carry all their keys and one version of metadata.
NextIngest ==
    \/ \E r \in Reqs : users = <<>> /\ AuthCallback(r, TRUE)
    \/ \E r \in Reqs : TopBegin(r)
    \/ \E r \in Reqs : EnsureCheck(r)
    \/ \E r \in Reqs : TopFetch(r, {FALSE}, {1})
    \/ \E r \in Reqs : TopLoop(r)
    \/ \E r \in Reqs : TopInsert(r)
    \/ \E r \in Reqs : TopCommit(r)
    \/ \E r \in Reqs : TopFeatures(r)
    \/ \E r \in Reqs : Release(r)

SpecIngest == Init /\ [][NextIngest]_vars

\* Every handler side by side while the token is fresh: a first authorization,
\* then /api/me and /api/top-tracks requests on two threads.
NextServer ==
    \/ \E r \in Reqs : users = <<>> /\ AuthCallback(r, TRUE)
    \/ \E r \in Reqs : ApiMeBegin(r)
    \/ \E r \in Reqs : TopBegin(r)
    \/ \E r \in Reqs : EnsureCheck(r)
    \/ \E r \in Reqs : ApiMeProfile(r)
    \/ \E r \in Reqs : TopFetch(r, {FALSE}, {1})
    \/ \E r \in Reqs : TopLoop(r)
    \/ \E r \in Reqs : TopInsert(r)
    \/ \E r \in Reqs : TopCommit(r)
    \/ \E r \in Reqs : TopFeatures(r)
    \/ \E r \in Reqs : Release(r)

SpecServer == Init /\ [][NextServer]_vars

\* No other thread is inside a handler.
Alone(r) == \A o \in Reqs \ {r} : req[o].pc = "idle"

\* Requests served one after another, on either thread: authorizations at any
\* time, /api/me and /api/top-tracks while the token is fresh. The provider's
\* item metadata and feature values differ between answers, and an item can
\* lack a metadata key.
NextSerial ==
    \/ \E r \in Reqs : Alone(r) /\ AuthCallback(r, TRUE)
    \/ \E r \in Reqs : Alone(r) /\ ApiMeBegin(r)
    \/ \E r \in Reqs : Alone(r) /\ TopBegin(r)
    \/ \E r \in Reqs : EnsureCheck(r)
    \/ \E r \in Reqs : ApiMeProfile(r)
    \/ \E r \in Reqs : TopFetch(r, BOOLEAN, {1, 2})
    \/ \E r \in Reqs : TopLoop(r)
    \/ \E r \in Reqs : TopInsert(r)
    \/ \E r \in Reqs : TopCommit(r)
    \/ \E r \in Reqs : TopFeatures(r)
    \/ \E r \in Reqs : Release(r)

SpecSerial == Init /\ [][NextSerial]_vars

\* Calls of get_audio_features over lists of every length.
NextFeatureRequests == GetAudioFeatures

SpecFeatureRequests == Init /\ [][NextFeatureRequests]_vars

\* Calls of _normalize_track_id over the identifiers.
NextNormalize == NormalizeCall

SpecNormalize == Init /\ [][NextNormalize]_vars

\* ======================================================================
\* Properties
\* ======================================================================
EnsurePcs == {"ev_check", "ev_exchange", "ev_assign", "ev_persist"}

\* Thread r takes a step.
Steps(r) == req'[r] # req[r]

Pair(row) == <<row.at, row.exp>>

\* q is a finished /api request whose refresh exchange was attempted and
\* raised.
RefreshFailed(q) ==
    /\ q.kind \in {"me", "top"}
    /\ q.pc = "done"
    /\ q.nAttempts >= 1
    /\ ~q.resp.ok

\* q has left ensure_valid_access_token (returned or raised) after one
\* exchange that answered with an access token and a usable lifetime.
Refreshed(q) ==
    /\ q.kind \in {"me", "top"}
    /\ q.pc \notin {"idle"} \cup EnsurePcs
    /\ q.nAttempts = 1
    /\ q.resp.ok
    /\ q.resp.at # None
    /\ q.resp.ein # BadInt

\* C1: a step of ensure_valid_access_token leaves every account's stored
\* (access token, token expiry) as it was, or stores the pair of this call's
\* exchange (its access token with now + lifetime) in the call's account; it
\* never stores a new token with the old expiry or the old token with a new
\* expiry, whether the call returns or raises.
C1_PairOldOrNew ==
    [][\A r \in Reqs :
         (Steps(r) /\ req[r].pc \in EnsurePcs) =>
            /\ Len(users') = Len(users)
            /\ \A i \in 1..Len(users) :
                 \/ Pair(users'[i]) = Pair(users[i])
                 \/ /\ i = req[r].row
                    /\ Pair(users'[i]) = <<req'[r].resp.at, req'[r].newExp>>]_vars

\* A call that went through the refresh path is over, and the account holds
\* the pair it held before.
C1_Witness ==
    \E r \in Reqs :
        /\ Refreshed(req[r])
        /\ req[r].pc = "done"
        /\ Pair(users[req[r].row]) # <<req[r].resp.at, req[r].newExp>>

\* C2: when the token is invalid and the refresh exchange fails, the call has
\* made exactly one attempt, the HTTPError leaves the handler, and no step of
\* the call up to there changed a stored account.
C2_FailedRefresh ==
    [][\A r \in Reqs :
         Steps(r) =>
            /\ req[r].pc \in {"ev_check", "ev_exchange"} /\ ~req'[r].resp.ok
                  => users' = users
            /\ RefreshFailed(req'[r])
                  => req'[r].nAttempts = 1 /\ req'[r].err = "HTTPError"]_vars

C2_Witness ==
    \E r \in Reqs :
        /\ RefreshFailed(req[r])
        /\ ~req[r].chkNone
        /\ req[r].chkSlack <= 60
        /\ users[req[r].row].at # None
        /\ users[req[r].row].exp # None

\* C3: after a call that found the expiry one second in the past and whose
\* one exchange answered, the call has returned and the account holds the new
\* access token and the new expiry.
C3_PersistedBeforeReturn ==
    \A r \in Reqs :
        (Refreshed(req[r]) /\ ~req[r].chkNone /\ req[r].chkSlack = -1) =>
            /\ req[r].err # "InvalidRequestError"
            /\ req[r].token = req[r].resp.at
            /\ Pair(users[req[r].row]) = <<req[r].resp.at, req[r].newExp>>

\* q has passed the validity check of line 73 and, when the token was
\* invalid, the exchange of line 74.
Checked(q) ==
    /\ q.kind \in {"me", "top"}
    /\ q.row # 0
    /\ q.pc \notin {"idle", "ev_check", "ev_exchange"}

\* C4: a call makes a refresh exchange exactly when the expiry it loaded is
\* absent or at most 60 s after the time of the check; otherwise it makes none
\* and returns the access token it loaded; the check changes no stored row.
C4_RefreshIffInvalid ==
    /\ [](\A r \in Reqs :
            Checked(req[r]) =>
               (req[r].nAttempts >= 1
                  <=> (req[r].chkNone \/ req[r].chkSlack <= 60)))
    /\ [][\A r \in Reqs :
            (Steps(r) /\ req[r].pc = "ev_check") =>
               /\ users' = users
               /\ req'[r].chkNone = (req[r].mem.exp = None)
               /\ ~req'[r].chkNone => req'[r].chkSlack = req[r].mem.exp - now
               /\ req'[r].nAttempts = 0
               /\ req'[r].pc # "ev_exchange" => req'[r].token = req[r].mem.at]_vars

\* A call found the expiry 3600 s ahead, made no exchange and returned the
\* stored access token.
C4_Witness ==
    \E r \in Reqs :
        /\ Checked(req[r])
        /\ ~req[r].chkNone
        /\ req[r].chkSlack = 3600
        /\ req[r].nAttempts = 0
        /\ req[r].token = users[req[r].row].at
        /\ users[req[r].row].exp = now + 3600

\* q is a finished callback that got its tokens and the profile of an account
\* that is stored at row i.
CallbackOn(q, i) ==
    /\ q.kind = "cb"
    /\ q.pc = "done"
    /\ q.nFetch = 1
    /\ q.err \in {"", "IntegrityError"}
    /\ q.row = i

\* C5: a stored refresh token never becomes null; it changes only in a step of
\* a request whose exchange answered with a new refresh token, to that token;
\* and a callback for a stored account whose answer carries no refresh token
\* succeeds, stores the new access token and keeps the stored refresh token.
C5_RefreshTokenKept ==
    [][\A i \in 1..Len(users) :
         /\ Len(users') >= Len(users)
         /\ users'[i].rt # None
         /\ users'[i].rt # users[i].rt =>
               \E r \in Reqs : /\ Steps(r)
                               /\ req'[r].resp.rtKey
                               /\ req'[r].resp.rt = users'[i].rt
         /\ \A r \in Reqs :
               (Steps(r) /\ CallbackOn(req'[r], i) /\ req'[r].resp.rt = None) =>
                  /\ req'[r].err = ""
                  /\ users'[i].at = req'[r].resp.at
                  /\ users'[i].rt = users[i].rt]_vars

\* A callback for a stored account got an answer without a refresh token: the
\* account holds the answer's access token and still has a refresh token.
C5_Witness ==
    \E r \in Reqs :
        /\ req[r].row # 0
        /\ CallbackOn(req[r], req[r].row)
        /\ req[r].resp.rt = None
        /\ req[r].err = ""
        /\ users[req[r].row].at = req[r].resp.at
        /\ users[req[r].row].rt # None
        /\ users[req[r].row].rt # req[r].resp.at

\* C6: a top-tracks request whose feature fetch failed has answered
\* {fetched: N} for its N items, and no exception left the handler.
C6_FeatureFailureSwallowed ==
    \A r \in Reqs :
        (req[r].pc = "done" /\ req[r].afFailed) =>
            /\ req[r].err = ""
            /\ req[r].fetched = Len(req[r].ids)

\* No ingestion run of row i is inside its item loop.
NoLoop(i) ==
    \A r \in Reqs : ~(req[r].row = i /\ req[r].pc \in {"top_loop", "top_insert"})

Distinct(ids) == \A a, b \in 1..Len(ids) : ids[a] = ids[b] => a = b

\* The rows of user_top_tracks that link user row i to track row t.
Links(i, t) ==
    LET S == { x \in BagToSet(utts) : x.user_id = i /\ x.track_id = t } IN
    BagCardinality([x \in S |-> CopiesIn(x, utts)])

\* C7: no two Track rows share a spotify_track_id; and when an account's runs
\* all had the same list of distinct ids and none raised in the loop, after k
\* runs every item of the list has one Track row and k links to the account.
C7_Idempotent ==
    /\ \A a, b \in 1..Len(tracks) : tracks[a].tid = tracks[b].tid => a = b
    /\ \A u \in ExtUsers :
         LET h == hist[u]
             i == FindUser(u)
         IN
         (i # 0 /\ h.same /\ h.n > 0 /\ Distinct(h.ids) /\ NoLoop(i)) =>
            \A k \in 1..Len(h.ids) :
               /\ Cardinality({ t \in 1..Len(tracks) : tracks[t].tid = h.ids[k] }) = 1
               /\ Links(i, FindTrack(h.ids[k])) = h.n
               /\ CopiesIn([user_id |-> i, track_id |-> FindTrack(h.ids[k]),
                            rank |-> k], utts) = h.n

\* Two runs over the same list of two distinct items are over.
C7_Witness ==
    \E u \in ExtUsers :
        /\ hist[u].same
        /\ hist[u].n = 2
        /\ Len(hist[u].ids) = 2
        /\ Distinct(hist[u].ids)
        /\ NoLoop(FindUser(u))
        /\ Len(tracks) = 2

\* C8: a request whose resource call was answered 401 has taken the refresh
\* path, and it ends in an error only if the refresh exchange failed.
C8_RefreshOn401 ==
    \A r \in Reqs :
        (req[r].pc = "done" /\ req[r].got401) =>
            /\ req[r].nAttempts >= 1
            /\ req[r].err # "" => ~req[r].resp.ok

\* The account record as ensure_valid_access_token means to store it for the
\* call of q, which is about to persist: the answer's access token and
\* expiry, and the answer's refresh token if it carries one, else the one the
\* call loaded.
Fresh(q, old) ==
    [sid |-> old.sid, at |-> q.resp.at, exp |-> q.newExp,
     rt |-> IF q.resp.rtKey THEN q.resp.rt ELSE q.mem.rt]

\* C9: whatever the interleaving, a step of a refreshing request leaves each
\* stored account record whole: as it was, or entirely the record of this
\* request's own exchange.
C9_RecordWhole ==
    [][\A r \in Reqs :
         (Steps(r) /\ req[r].pc \in EnsurePcs) =>
            \A i \in 1..Len(users) :
               \/ users'[i] = users[i]
               \/ /\ i = req[r].row
                  /\ req[r].pc = "ev_persist"
                  /\ users'[i] = Fresh(req[r], users[i])]_vars

\* Both threads found the same account expired, both exchanges answered, and
\* both calls are over.
C9_Witness ==
    /\ \A r \in Reqs : Refreshed(req[r]) /\ req[r].pc = "done"
    /\ req[1].row = req[2].row
    /\ \A r \in Reqs : ~req[r].chkNone /\ req[r].chkSlack <= 60
    /\ req[1].resp.at # req[2].resp.at
    /\ users[req[1].row].at \notin {req[1].resp.at, req[2].resp.at}

\* C10: a callback without code answers 400, makes no token exchange and no
\* profile fetch, and changes no account row.
C10_MissingCode ==
    [][\A r \in Reqs :
         (Steps(r) /\ req'[r].kind = "cb" /\ ~req'[r].code) =>
            /\ req'[r].err = "400"
            /\ req'[r].nAttempts = 0
            /\ req'[r].nFetch = 0
            /\ nExch' = nExch
            /\ users' = users]_vars

\* A callback without code has answered 400 while an account is stored.
C10_Witness ==
    \E r \in Reqs :
        /\ req[r].kind = "cb"
        /\ req[r].pc = "done"
        /\ ~req[r].code
        /\ req[r].err = "400"
        /\ Len(users) > 0

\* q is an /api/me or /api/top-tracks request whose lookup found no account.
Unknown(q) == q.kind \in {"me", "top"} /\ q.row = 0

\* C11: an /api/me or /api/top-tracks request for an id with no stored account
\* ends at once with 404, having made no token exchange and no call to the
\* provider, and its step changes no row of any table.
C11_UnknownUser404 ==
    /\ [](\A r \in Reqs :
            Unknown(req[r]) =>
               /\ req[r].pc = "done"
               /\ req[r].err = "404"
               /\ req[r].nAttempts = 0
               /\ req[r].nFetch = 0)
    /\ [][\A r \in Reqs :
            (Steps(r) /\ Unknown(req'[r])) =>
               /\ users' = users
               /\ tracks' = tracks
               /\ utts' = utts
               /\ nExch' = nExch
               /\ nItems' = nItems]_vars

\* Both handlers have answered 404 while an account, items and links are
\* stored.
C11_Witness ==
    /\ \E r \in Reqs : Unknown(req[r]) /\ req[r].kind = "me" /\ req[r].err = "404"
    /\ \E r \in Reqs : Unknown(req[r]) /\ req[r].kind = "top" /\ req[r].err = "404"
    /\ Len(users) > 0
    /\ Len(tracks) > 0
    /\ utts # EmptyBag

\* C12: the ids of a ranked list go out in /audio-features requests of at most
\* 100 ids each, and every id of the list is carried by exactly one request.
C12_ChunkedRequests ==
    calc.op = "get_audio_features" =>
        /\ \A k \in 1..Len(calc.out) : Len(calc.out[k]) <= BatchCeiling
        /\ \A i \in 1..Len(calc.arg) :
              Cardinality({ <<k, j>> \in (1..Len(calc.out)) \X (1..MaxList) :
                              j <= Len(calc.out[k]) /\ calc.out[k][j] = calc.arg[i] }) = 1

\* The raw id the normalization rule names for a string that is not empty:
\* strip the whitespace around it; of a "spotify:" identifier the last
\* colon-delimited segment; of an open.spotify.com link the last segment of
\* its path, the path being what precedes the query string; else the
\* stripped string itself.
RawId(t) ==
    LET u == Strip(t) IN
    IF StartsWithScheme(u) THEN SplitLast(u, ":")
    ELSE IF HasLinkHost(u) THEN SplitLast(SplitFirst(u, "?"), "/")
    ELSE u

\* C13: _normalize_track_id maps every string that is not empty to its raw
\* id, and normalizing the result again changes nothing.
C13_NormalizeRawId ==
    (calc.op = "_normalize_track_id" /\ calc.arg # <<>>) =>
        /\ calc.out = Id(RawId(calc.arg))
        /\ NormalizeTrackId(calc.out.id) = calc.out

\* The links thread r's step has stored.
Stored(r) ==
    IF Len(req'[r].added) > Len(req[r].added)
    THEN SubSeq(req'[r].added, Len(req[r].added) + 1, Len(req'[r].added))
    ELSE <<>>

\* C14: a run that has passed the commit of line 131 on a list of N items has
\* stored N links, the i-th with the requesting account, the Track row of the
\* list's i-th item and rank i; and every step only adds the stepping
\* request's links to the table, leaving all rows it held in place.
C14_OneLinkPerPosition ==
    /\ [](\A r \in Reqs :
            req[r].pc = "top_features" =>
               /\ Len(req[r].added) = Len(req[r].ids)
               /\ \A i \in 1..Len(req[r].ids) :
                     /\ FindTrack(req[r].ids[i]) # 0
                     /\ req[r].added[i] = [user_id |-> req[r].row,
                                           track_id |-> FindTrack(req[r].ids[i]),
                                           rank |-> i])
    /\ [][\E r \in Reqs :
            /\ Steps(r)
            /\ utts' = utts (+) Rows(Stored(r))
            /\ utts \sqsubseteq utts']_vars

\* A run over a list of two items has passed line 131 while the table holds
\* more links than the run's own two.
C14_Witness ==
    \E r \in Reqs :
        /\ req[r].pc = "top_features"
        /\ Len(req[r].ids) = 2
        /\ BagCardinality(utts) > 2

\* C15: no step changes the external id or the metadata of a stored Track, and
\* a stored Track's feature blob changes only in the feature step of a
\* request; in particular the item loop, meeting an item whose Track exists
\* with other metadata than the provider now reports, leaves the row alone.
C15_ExistingItemKept ==
    [][/\ Len(tracks') >= Len(tracks)
       /\ \A i \in 1..Len(tracks) :
             /\ tracks'[i].tid = tracks[i].tid
             /\ tracks'[i].meta = tracks[i].meta
             /\ tracks'[i].af # tracks[i].af =>
                   \E r \in Reqs : Steps(r) /\ req[r].pc = "top_features"]_vars

\* A run whose list names an item stored with other metadata than the run's
\* answer reports has passed its item loop.
C15_Witness ==
    \E r \in Reqs :
        /\ req[r].pc = "top_features"
        /\ \E i \in 1..Len(req[r].ids) :
              /\ FindTrack(req[r].ids[i]) # 0
              /\ tracks[FindTrack(req[r].ids[i])].meta # req[r].ver

\* Thread r's step is a feature step that the provider answered.
FeaturesStored(r) ==
    /\ Steps(r)
    /\ req[r].pc = "top_features"
    /\ req'[r].err = ""

\* C16: a feature step that the provider answered ends without error and
\* gives every Track whose id has a non-null record the blob of that record,
\* also over a blob it held; every other Track keeps its blob, and a record
\* whose id has no Track adds or changes nothing.
C16_FeaturesOverwrite ==
    [][\A r \in Reqs :
         FeaturesStored(r) =>
            /\ Len(tracks') = Len(tracks)
            /\ req'[r].fetched = Len(req[r].ids)
            /\ \A i \in 1..Len(tracks) :
                  tracks'[i] = IF tracks[i].tid \in req'[r].got
                               THEN [tracks[i] EXCEPT !.af = req[r].ver]
                               ELSE tracks[i]]_vars

\* A feature step has replaced one Track's blob by the newer one while its
\* answer also held a record for an id that has no Track.
C16_Witness ==
    \E r \in Reqs :
        /\ req[r].pc = "done"
        /\ req[r].fetched = 1
        /\ \E g \in req[r].got : FindTrack(g) = 0
        /\ \E g \in req[r].got : FindTrack(g) # 0 /\ tracks[FindTrack(g)].af = 2
        /\ \E i \in 1..Len(tracks) : tracks[i].meta = 1

\* Thread r's step is a callback that got its tokens and the profile.
CallbackThrough(r) ==
    /\ Steps(r)
    /\ req'[r].kind = "cb"
    /\ req'[r].nFetch = 1
    /\ req'[r].err # "HTTPError"

\* C17: no two stored accounts share an external user id; no step removes a
\* row of any table or changes the id a stored account or Track stands for;
\* and a callback that got its tokens and the profile succeeds, adding the
\* account when the id has none and otherwise storing the new access token in
\* the account the id already has, without adding a row.
C17_OneAccountPerId ==
    /\ [](\A i, j \in 1..Len(users) : users[i].sid = users[j].sid => i = j)
    /\ [][/\ Len(users') >= Len(users)
          /\ \A i \in 1..Len(users) : users'[i].sid = users[i].sid
          /\ Len(tracks') >= Len(tracks)
          /\ \A i \in 1..Len(tracks) : tracks'[i].tid = tracks[i].tid
          /\ utts \sqsubseteq utts'
          /\ \A r \in Reqs :
                CallbackThrough(r) =>
                   LET i == req'[r].row IN
                   /\ req'[r].err = ""
                   /\ i \in 1..Len(users')
                   /\ users'[i].at = req'[r].resp.at
                   /\ Len(users') = IF \E k \in 1..Len(users) :
                                          users[k].sid = users'[i].sid
                                    THEN Len(users)
                                    ELSE Len(users) + 1]_vars

\* A second authorization of the same id has succeeded while items and links
\* are stored: there is still one account, holding the second access token.
C17_Witness ==
    \E r \in Reqs :
        /\ req[r].kind = "cb"
        /\ req[r].pc = "done"
        /\ req[r].err = ""
        /\ req[r].nFetch = 1
        /\ req[r].resp.at = 2
        /\ Len(users) = 1
        /\ users[1].at = 2
        /\ Len(tracks) > 0
        /\ utts # EmptyBag

\* C18: every stored account holds an access token and a refresh token.
C18_TokensPresent ==
    \A i \in 1..Len(users) : users[i].at # None /\ users[i].rt # None

\* One thread's callback for a stored account got an answer without a refresh
\* token, the other's refresh exchange an answer without an access token or
\* with a null refresh token; both are over.
C18_Witness ==
    \E r, o \in Reqs :
        /\ CallbackOn(req[r], 1)
        /\ req[r].resp.ok
        /\ req[r].resp.rt = None
        /\ req[o].kind = "me"
        /\ req[o].pc = "done"
        /\ req[o].resp.ok
        /\ req[o].resp.at = None \/ (req[o].resp.rtKey /\ req[o].resp.rt = None)
        /\ Len(users) = 1

\* C19: a finished request that reached storage has made exactly one session,
\* so that all its reads and writes, the persist of a token refresh included,
\* went through the session the handler opened.
C19_OneSessionPerRequest ==
    \A r \in Reqs :
        (req[r].pc = "done" /\ req[r].kind \in {"me", "top"}) => req[r].nSess = 1

\* C20: every stored link names the primary key of a stored account and of a
\* stored Track, and its rank is at least 1.
C20_LinksReferToRows ==
    \A x \in BagToSet(utts) :
        /\ x.user_id \in 1..Len(users)
        /\ x.track_id \in 1..Len(tracks)
        /\ x.rank >= 1

\* One run has failed inside its item loop and another in its feature step,
\* and links are stored.
C20_Witness ==
    /\ \E r \in Reqs : req[r].pc = "done" /\ req[r].err = "IntegrityError"
    /\ \E r \in Reqs : req[r].pc = "done" /\ req[r].err = "TypeError"
    /\ utts # EmptyBag
=============================================================================
